---- MODULE Spec2Model ----
(***************************************************************************)
(* fluffd (src/fluffd/fluffd.js): the HTTP server that routes JSON         *)
(* commands to the connected Furbies, and the noble callbacks that fill    *)
(* the table of connected Furbies.                                         *)
(*                                                                         *)
(* Node runs every callback to completion, so each callback of the file    *)
(* is one action.  A POST request is two callbacks: the request handler    *)
(* (HttpRequest) and, once the body has arrived, the "end" listener        *)
(* (PostEnd); every other event may occur between the two.  The model      *)
(* follows one request at a time, from its arrival to its response, and    *)
(* keeps the response until the next request arrives.                      *)
(***************************************************************************)
EXTENDS Integers, Sequences, FiniteSets, TLC

\* Bounds of the model.
MaxFluff == 2        \* connects started over a run

\* The values the events of a run are drawn from.
Uuids == {"AA:BB", "CC:DD"}                 \* peripherals in radio range
Undefined == "undefined"
\* Names every object inherits from Object.prototype; furbies is an object
\* literal, so the in operator finds them in it.
Inherited == {"toString"}
\* Values of a body's "target".
Targets == Uuids \cup {"ZZ:ZZ"} \cup Inherited
ParamValues == {Undefined, "p"}             \* values of a body's "params"
LocalNames == {"Furby", "Other"}            \* advertised names
AdapterStates == {"poweredOn", "poweredOff"}
NoState == "none"                           \* no stateChange event yet
CommandNames == {"feed", "wiggle"}
Methods == {"POST", "OPTIONS"}
Routes == {"cmd", "list", "scan", "other"}
Argv2 == {Undefined, "introspect"}

\* What a call of Furby.do can do: return (the command then succeeds or
\* fails later, which is only logged), or throw while it is being issued.
DoOutcomes == {"ok", "failed", "threw"}

VARIABLES
    argv2,        \* process.argv[2]
    running,      \* the process has not exited
    furbies,      \* the table of connected Furbies, in property order
    connecting,   \* fluffcon.connect calls whose callback has not run: the
                  \* peripheral's uuid and advertised name, the connection
    nextFluff,    \* connections handed out so far
    connected,    \* peripherals whose BLE link is up
    introspecting,\* peripherals handed to fluffcon.introspect
    lastState,    \* the adapter state of the last stateChange event
    scanning,     \* the last of noble.startScanning / noble.stopScanning
    req,          \* the HTTP request followed: its req and res objects
    completed,    \* history: per peripheral, the connections whose connect
                  \* callback has run, oldest first
    scanRequested \* history: GET /scan was handled after the last stateChange

vars == <<argv2, running, furbies, connecting, nextFluff, connected,
          introspecting, lastState, scanning, req, completed, scanRequested>>

----------------------------------------------------------------------------
\* The furbies object: its properties in insertion order.

Keys == {furbies[i].uuid : i \in DOMAIN furbies}

IndexOf(uuid) == CHOOSE i \in DOMAIN furbies : furbies[i].uuid = uuid

\* furbies[furbyId], for a key of the table
Lookup(uuid) == furbies[IndexOf(uuid)]

\* furbyId in furbies: own and inherited properties
In(furbyId) == furbyId \in Keys \cup Inherited

\* Mutant of NewFurby: the Furby is put in the table before it has learned
\* the commands.
NewFurbyUnlearned(uuid, fluff) ==
    [uuid |-> uuid, fluff |-> fluff, learned |-> FALSE]

\* new Furby(peripheral.uuid, fluff); furby.learn(fluffaction.commands)
NewFurby(uuid, fluff) == [uuid |-> uuid, fluff |-> fluff, learned |-> TRUE]

\* Mutant of Assign: a Furby already in the table is kept, the new one dropped.
AssignIfAbsent(uuid, furby) ==
    IF uuid \in Keys THEN furbies ELSE Append(furbies, furby)

\* Mutant of Assign: the Furby of the connect that was started later wins.
AssignNewest(uuid, furby) ==
    IF uuid \in Keys
    THEN IF Lookup(uuid).fluff > furby.fluff
         THEN furbies
         ELSE [furbies EXCEPT ![IndexOf(uuid)] = furby]
    ELSE Append(furbies, furby)

\* furbies[peripheral.uuid] = furby: an existing property keeps its place
Assign(uuid, furby) ==
    IF uuid \in Keys
    THEN [furbies EXCEPT ![IndexOf(uuid)] = furby]
    ELSE Append(furbies, furby)

----------------------------------------------------------------------------
\* The POST body and JSON.parse.

NoBody == [json |-> "none", target |-> Undefined, params |-> Undefined]

\* What the body text is: "garbage": not JSON; "primitive": the JSON null,
\* a number, a string or a boolean; "array": a JSON array; "object": a JSON
\* object, its target/params being Undefined when the key is absent.
Bodies ==
    {[json |-> k, target |-> Undefined, params |-> Undefined] :
        k \in {"garbage", "primitive", "array"}}
    \cup {[json |-> "object", target |-> t, params |-> p] :
            t \in Targets \cup {Undefined}, p \in ParamValues}

\* JSON.parse(commandDataString) throws a SyntaxError
ParseThrows(b) == b.json = "garbage"

\* "target" in commandData throws a TypeError on a value that is no object
InThrows(b) == b.json = "primitive"

\* "target" in commandData
HasTarget(b) == b.json = "object" /\ b.target # Undefined

----------------------------------------------------------------------------
\* The response object.

NoText == <<>>
NewRes == [cors |-> FALSE, text |-> NoText, ends |-> 0]

\* res.writeHead(200, {..., "Access-Control-Allow-Origin": "*"})
WriteHead(res) == [res EXCEPT !.cors = TRUE]

\* res.end(chunk): the first call sends chunk and finishes the response; a
\* call on a finished response sends nothing.
ResEnd(res, chunk) ==
    IF res.ends = 0
    THEN [res EXCEPT !.text = chunk, !.ends = 1]
    ELSE [res EXCEPT !.ends = @ + 1]

Ok == <<"ok">>
NotFound == <<"error: could not find target">>
\* "error: " + e
ErrorOf(e) == <<"error: ", e>>
\* The text is one the catch block sent.
BeginsWithCatch(text) == text # NoText /\ text[1] = "error: "

IdleReq == [st |-> "idle", method |-> "", route |-> "", commandName |-> "",
            body |-> NoBody, res |-> NewRes, execs |-> <<>>]

----------------------------------------------------------------------------
\* The "end" listener of parsePostCommand.

\* One call furby.do(commandName, params), with what the call did.
Call(furby, commandName, params, outcome) ==
    [furby |-> furby, commandName |-> commandName, params |-> params,
     outcome |-> outcome]

\* The index of the first call that throws, 0 when none does.
FirstThrow(outs, n) ==
    IF \E i \in 1..n : outs[i] = "threw"
    THEN CHOOSE i \in 1..n : outs[i] = "threw" /\ \A j \in 1..(i-1) : outs[j] # "threw"
    ELSE 0

\* The calls of do on the Furbies of `targets`, in order, outs[i] being what
\* the i-th call does: a call that throws ends the statement it is in, so no
\* later call is made.
DoEach(targets, commandName, params, outs) ==
    LET t == FirstThrow(outs, Len(targets))
        n == IF t = 0 THEN Len(targets) ELSE t
    IN  [i \in 1..n |-> Call(targets[i], commandName, params, outs[i])]

Threw(calls) == calls # <<>> /\ calls[Len(calls)].outcome = "threw"

\* The exception a sequence of calls ends with, NoException when none.
NoException == ""
Thrown(calls) == IF Threw(calls) THEN "DoError" ELSE NoException

\* Lines 76-84: commandData has a target.  The result is the response, the
\* calls made and the exception the block was left by.  An inherited
\* property is found by the in operator, and is no Furby: calling its do
\* throws a TypeError.
SingleFurby(q, b, outs) ==
    IF In(b.target)
    THEN IF b.target \in Keys
         THEN LET calls == DoEach(<<Lookup(b.target)>>, q.commandName,
                                  b.params, outs)
              IN  [res |-> q.res, execs |-> calls, thrown |-> Thrown(calls)]
         ELSE [res |-> q.res, execs |-> <<>>, thrown |-> "TypeError"]
    ELSE [res |-> ResEnd(q.res, NotFound), execs |-> <<>>,
          thrown |-> NoException]

\* Lines 86-91: no target, for (let furbyId in furbies).
AllFurbies(q, b, outs) ==
    LET calls == DoEach(furbies, q.commandName, b.params, outs)
    IN  [res |-> q.res, execs |-> calls, thrown |-> Thrown(calls)]

\* Mutant of OnEnd: the catch block logs the exception and answers "ok".
OnEndSwallow(q, b, outs) ==
    IF ParseThrows(b) \/ InThrows(b)
    THEN [res |-> ResEnd(q.res, Ok), execs |-> <<>>]
    ELSE
        LET d == IF HasTarget(b) THEN SingleFurby(q, b, outs)
                                 ELSE AllFurbies(q, b, outs)
        IN  [res |-> ResEnd(d.res, Ok), execs |-> d.execs]

\* Lines 73-97: the try block and its catch.
OnEnd(q, b, outs) ==
    IF ParseThrows(b)
    THEN [res |-> ResEnd(q.res, ErrorOf("SyntaxError")), execs |-> <<>>]
    ELSE IF InThrows(b)
    THEN [res |-> ResEnd(q.res, ErrorOf("TypeError")), execs |-> <<>>]
    ELSE
        LET d == IF HasTarget(b) THEN SingleFurby(q, b, outs)
                                 ELSE AllFurbies(q, b, outs)
        IN  IF d.thrown # NoException
            THEN [res |-> ResEnd(d.res, ErrorOf(d.thrown)), execs |-> d.execs]
            ELSE [res |-> ResEnd(d.res, Ok), execs |-> d.execs]

----------------------------------------------------------------------------
\* The actions: one per callback.

Init ==
    /\ argv2 \in Argv2
    /\ running = TRUE
    /\ furbies = <<>>
    /\ connecting = {}
    /\ nextFluff = 0
    /\ connected = {}
    /\ introspecting = {}
    /\ lastState = NoState
    /\ scanning = FALSE
    /\ req = IdleReq
    /\ completed = [u \in Uuids |-> <<>>]
    /\ scanRequested = FALSE

\* Mutant of Handle: a request to /cmd is read and dispatched whatever its
\* method.
HandleAnyMethod(method, route, commandName) ==
    LET q == [IdleReq EXCEPT !.method = method, !.route = route]
    IN  IF route = "cmd"
        THEN [q EXCEPT !.st = "reading", !.commandName = commandName,
                       !.res = WriteHead(NewRes)]
        ELSE IF route = "list"
        THEN [q EXCEPT !.st = "done", !.res = ResEnd(WriteHead(NewRes), <<"list">>)]
        ELSE IF route = "scan"
        THEN [q EXCEPT !.st = "done", !.res = ResEnd(NewRes, <<"scanning">>)]
        ELSE [q EXCEPT !.st = "done", !.res = ResEnd(WriteHead(NewRes), NoText)]

\* The request handler (lines 37-61) on a request: what it leaves of the
\* request and of its response.
Handle(method, route, commandName) ==
    LET q == [IdleReq EXCEPT !.method = method, !.route = route]
    IN  IF route = "cmd"
        THEN IF method = "POST"
             THEN [q EXCEPT !.st = "reading", !.commandName = commandName,
                            !.res = WriteHead(NewRes)]
             ELSE [q EXCEPT !.st = "done", !.res = ResEnd(WriteHead(NewRes), NoText)]
        ELSE IF route = "list"
        THEN [q EXCEPT !.st = "done", !.res = ResEnd(WriteHead(NewRes), <<"list">>)]
        ELSE IF route = "scan"
        THEN [q EXCEPT !.st = "done", !.res = ResEnd(NewRes, <<"scanning">>)]
        ELSE [q EXCEPT !.st = "done", !.res = ResEnd(WriteHead(NewRes), NoText)]

\* http.createServer(function(req, res) {...}): a request arrives.
HttpRequest(method, route, commandName) ==
    /\ running
    /\ req.st # "reading"
    /\ req' = Handle(method, route, commandName)
    /\ scanning' = IF route = "scan" THEN TRUE ELSE scanning
    /\ scanRequested' = IF route = "scan" THEN TRUE ELSE scanRequested
    /\ UNCHANGED <<argv2, running, furbies, connecting, nextFluff, connected,
                   introspecting, lastState, completed>>

\* Mutant of PostEnd: a Furby whose do failed or threw is deleted from the
\* table.
PostEndDropFailed(b, outs) ==
    /\ running
    /\ req.st = "reading"
    /\ LET d == OnEnd(req, b, outs)
           Bad == {d.execs[i].furby : i \in {j \in DOMAIN d.execs :
                                               d.execs[j].outcome # "ok"}}
           Keep(f) == f \notin Bad
       IN  /\ req' = [req EXCEPT !.st = "done", !.body = b,
                                 !.res = d.res, !.execs = d.execs]
           /\ furbies' = SelectSeq(furbies, Keep)
    /\ UNCHANGED <<argv2, running, connecting, nextFluff, connected,
                   introspecting, lastState, scanning, completed,
                   scanRequested>>

\* Mutant of PostEnd: the catch block rethrows, and the uncaught exception
\* ends the process before a response is sent.
PostEndFatal(b, outs) ==
    /\ running
    /\ req.st = "reading"
    /\ LET d == OnEnd(req, b, outs)
       IN  IF BeginsWithCatch(d.res.text)
           THEN running' = FALSE /\ req' = req
           ELSE /\ running' = running
                /\ req' = [req EXCEPT !.st = "done", !.body = b,
                                      !.res = d.res, !.execs = d.execs]
    /\ UNCHANGED <<argv2, furbies, connecting, nextFluff, connected,
                   introspecting, lastState, scanning, completed,
                   scanRequested>>

\* req.on("end", function() {...}): the body b of the request has arrived.
PostEnd(b, outs) ==
    /\ running
    /\ req.st = "reading"
    /\ LET d == OnEnd(req, b, outs)
       IN  req' = [req EXCEPT !.st = "done", !.body = b,
                              !.res = d.res, !.execs = d.execs]
    /\ UNCHANGED <<argv2, running, furbies, connecting, nextFluff, connected,
                   introspecting, lastState, scanning, completed,
                   scanRequested>>

\* Mutant of StateChange: a state other than "poweredOn" does not stop the
\* scan.
StateChangeNoStop(state) ==
    /\ running
    /\ lastState' = state
    /\ scanning' = (scanning \/ state = "poweredOn")
    /\ scanRequested' = FALSE
    /\ UNCHANGED <<argv2, running, furbies, connecting, nextFluff, connected,
                   introspecting, req, completed>>

\* noble.on("stateChange", function(state) {...})
StateChange(state) ==
    /\ running
    /\ lastState' = state
    /\ scanning' = (state = "poweredOn")
    /\ scanRequested' = FALSE
    /\ UNCHANGED <<argv2, running, furbies, connecting, nextFluff, connected,
                   introspecting, req, completed>>

\* Mutant of Discover: the advertised name is not looked at.
DiscoverAnyName(uuid, localName) ==
    /\ running
    /\ IF argv2 = "introspect"
       THEN /\ introspecting' = introspecting \cup {uuid}
            /\ UNCHANGED <<connecting, nextFluff>>
       ELSE /\ nextFluff < MaxFluff
            /\ nextFluff' = nextFluff + 1
            /\ connecting' = connecting \cup
                   {[uuid |-> uuid, localName |-> localName,
                     fluff |-> nextFluff + 1]}
            /\ UNCHANGED introspecting
    /\ UNCHANGED <<argv2, running, furbies, connected, lastState, scanning,
                   req, completed, scanRequested>>

\* noble.on("discover", function(peripheral) {...})
Discover(uuid, localName) ==
    /\ running
    /\ IF localName = "Furby"
       THEN IF argv2 = "introspect"
            THEN /\ introspecting' = introspecting \cup {uuid}
                 /\ UNCHANGED <<connecting, nextFluff>>
            ELSE /\ nextFluff < MaxFluff
                 /\ nextFluff' = nextFluff + 1
                 /\ connecting' = connecting \cup
                        {[uuid |-> uuid, localName |-> localName,
                          fluff |-> nextFluff + 1]}
                 /\ UNCHANGED introspecting
       ELSE UNCHANGED <<connecting, nextFluff, introspecting>>
    /\ UNCHANGED <<argv2, running, furbies, connected, lastState, scanning,
                   req, completed, scanRequested>>

\* The callback given to fluffcon.connect runs: function (fluff) {...}
ConnectDone(c) ==
    /\ running
    /\ c \in connecting
    /\ connecting' = connecting \ {c}
    /\ furbies' = Assign(c.uuid, NewFurby(c.uuid, c.fluff))
    /\ connected' = connected \cup {c.uuid}
    /\ completed' = [completed EXCEPT ![c.uuid] = Append(@, c.fluff)]
    /\ UNCHANGED <<argv2, running, nextFluff, introspecting, lastState,
                   scanning, req, scanRequested>>

\* A connect fails: its callback never runs.
ConnectFail(c) ==
    /\ running
    /\ c \in connecting
    /\ connecting' = connecting \ {c}
    /\ UNCHANGED <<argv2, running, furbies, nextFluff, connected,
                   introspecting, lastState, scanning, req, completed,
                   scanRequested>>

\* The BLE link of a peripheral drops.  fluffd.js registers no listener for
\* it, so nothing of the server's state changes.
Disconnect(uuid) ==
    /\ running
    /\ uuid \in connected
    /\ connected' = connected \ {uuid}
    /\ UNCHANGED <<argv2, running, furbies, connecting, nextFluff,
                   introspecting, lastState, scanning, req, completed,
                   scanRequested>>

\* fluffcon.introspect has listed the services: the process exits.
IntrospectExit ==
    /\ running
    /\ introspecting # {}
    /\ running' = FALSE
    /\ UNCHANGED <<argv2, furbies, connecting, nextFluff, connected,
                   introspecting, lastState, scanning, req, completed,
                   scanRequested>>

\* The path segment after /cmd/ is read by a POST to /cmd only.
NamesOf(method, route) ==
    IF route = "cmd" /\ method = "POST" THEN CommandNames ELSE {""}

\* The number of Furbies the listener calls do on, at most, for body b.
Callees(b) ==
    IF ParseThrows(b) \/ InThrows(b) THEN 0
    ELSE IF HasTarget(b) THEN (IF b.target \in Keys THEN 1 ELSE 0)
    ELSE Len(furbies)

\* The "end" event of the request, with any body and any outcome of the calls
\* of do.
EndEvent ==
    \E b \in Bodies : \E outs \in [1..Callees(b) -> DoOutcomes] : PostEnd(b, outs)

Next ==
    \/ \E m \in Methods, rt \in Routes : \E n \in NamesOf(m, rt) : HttpRequest(m, rt, n)
    \/ EndEvent
    \/ \E s \in AdapterStates : StateChange(s)
    \/ \E u \in Uuids, n \in LocalNames : Discover(u, n)
    \/ \E c \in connecting : ConnectDone(c)
    \/ \E c \in connecting : ConnectFail(c)
    \/ \E u \in Uuids : Disconnect(u)
    \/ IntrospectExit

Spec == Init /\ [][Next]_vars

----------------------------------------------------------------------------
\* What the claims speak of.

\* The step in which the "end" listener of the followed request runs: the
\* dispatch.  furbies, unprimed, is the table at dispatch time.
Dispatch == req.st = "reading" /\ req'.st = "done"

\* The body parsed to a value the listener can look a target up in.
Parsed(b) == ~ParseThrows(b) /\ ~InThrows(b)

Broadcast(b) == Parsed(b) /\ ~HasTarget(b)

\* The response text begins with "error:".
BeginsWithError(text) ==
    text # NoText /\ text[1] \in {"error: ", "error: could not find target"}

\* The Furbies of the table, and those a request called do on.
Registered == {furbies[i] : i \in DOMAIN furbies}
Executed(q) == {q.execs[i].furby : i \in DOMAIN q.execs}

Last(seq) == seq[Len(seq)]

\* C1, as claimed: a dispatch whose body names a target that is no key of
\* the table answers "error: could not find target" and calls do on no
\* Furby.
C1_TargetNotFound ==
    [][(Dispatch /\ HasTarget(req'.body) /\ req'.body.target \notin Keys)
        => (req'.res.text = NotFound /\ req'.execs = <<>>)]_vars

\* C2, as claimed: a broadcast dispatch calls do exactly once on every Furby
\* of the table at dispatch time, in no other, and answers "ok" when the
\* table is empty.
C2_BroadcastExactlyOnce ==
    [][(Dispatch /\ Broadcast(req'.body))
        => /\ Len(req'.execs) = Len(furbies)
           /\ \A i \in DOMAIN furbies : req'.execs[i].furby = furbies[i]
           /\ (furbies = <<>> => req'.res.text = Ok)]_vars

\* C3, as claimed: in a broadcast dispatch do is called on every Furby of
\* the table, whichever calls fail or throw.
C3_FailureDoesNotAbort ==
    [][(Dispatch /\ Broadcast(req'.body)) => Registered \subseteq Executed(req')]_vars

\* C4, as claimed: every Furby of the table has its BLE link up.
C4_EntriesAreConnected ==
    \A i \in DOMAIN furbies : furbies[i].uuid \in connected

\* C5, as claimed: a dispatch to a target whose connect has completed calls
\* do(commandName, params) on the Furby of the last completed connect, on no
\* other, and answers "ok".
C5_TargetedDispatch ==
    [][(Dispatch /\ HasTarget(req'.body) /\ req'.body.target \in Uuids
            /\ completed[req'.body.target] # <<>>)
        => /\ Len(req'.execs) = 1
           /\ req'.execs[1].furby =
                NewFurby(req'.body.target, Last(completed[req'.body.target]))
           /\ req'.execs[1].commandName = req.commandName
           /\ req'.execs[1].params = req'.body.params
           /\ req'.res.text = Ok]_vars

C7_ResponseIsOk ==
    [][(Dispatch /\ Parsed(req'.body)
            /\ (HasTarget(req'.body) => req'.body.target \in Keys))
        => req'.res.text = Ok]_vars

\* C8: once a connect for a peripheral has completed, the table holds
\* exactly one Furby for the peripheral, that of the connect that completed
\* last; the Furbies of earlier connects are not in the table.
C8_Reconnect ==
    \A u \in Uuids :
        completed[u] # <<>> =>
            /\ Cardinality({i \in DOMAIN furbies : furbies[i].uuid = u}) = 1
            /\ Lookup(u) = NewFurby(u, Last(completed[u]))
            /\ \A k \in 1..(Len(completed[u]) - 1) :
                    NewFurby(u, completed[u][k]) \notin Registered

C8_Witness ==
    \E u \in Uuids :
        /\ Len(completed[u]) = 2
        /\ Lookup(u).fluff = completed[u][2]
        /\ Len(furbies) = 1

\* C9: a step that handles a request (the request handler or the "end"
\* listener) leaves the table as it was, whatever the calls of do did.
C9_DispatchLeavesRegistry ==
    [][(req' # req) => (furbies' = furbies)]_vars

C9_Witness ==
    /\ req.st = "done"
    /\ \E i \in DOMAIN req.execs :
          /\ req.execs[i].outcome \in {"failed", "threw"}
          /\ req.execs[i].furby \in Registered

\* C10, as claimed: scanning is on only if the last stateChange event was
\* "poweredOn".
C10_ScanningOnlyIfPoweredOn ==
    scanning => lastState = "poweredOn"

\* C10, amended: scanning is on exactly when the last stateChange event was
\* "poweredOn" or a GET /scan was handled after the last stateChange event.
C10_ScanningFollowsAdapterOrScan ==
    scanning <=> (lastState = "poweredOn" \/ scanRequested)

C10_Witness ==
    /\ scanning
    /\ lastState = "poweredOff"
    /\ req.route = "scan"
    /\ req.st = "done"

\* C11, as claimed: every response sent carries the header
\* Access-Control-Allow-Origin: *.
C11_EveryResponseHasCors ==
    req.res.ends > 0 => req.res.cors

\* The connections of the connects started, in flight and completed.
Started == 1..nextFluff
InFlight == {c.fluff : c \in connecting}
Completed == UNION {{completed[u][k] : k \in DOMAIN completed[u]} : u \in Uuids}

\* C12: every connect in flight was started for a peripheral advertising
\* "Furby"; every Furby of the table is that of a connect, for its own
\* uuid, whose callback has run; a step that starts a connect starts one
\* and ends none (so a connect is started by a discover event only, never by
\* the failure or the completion of another); a connect that ends without
\* its callback running leaves the table as it was.
C12_KeysAreCompletedConnects ==
    /\ [](/\ \A c \in connecting : c.localName = "Furby" /\ c.fluff \in Started
          /\ \A i \in DOMAIN furbies :
                \E k \in DOMAIN completed[furbies[i].uuid] :
                    completed[furbies[i].uuid][k] = furbies[i].fluff)
    /\ [][/\ (connecting' \ connecting # {}) =>
                /\ connecting \subseteq connecting'
                /\ Cardinality(connecting' \ connecting) = 1
                /\ nextFluff' = nextFluff + 1
                /\ furbies' = furbies
          /\ (connecting' # connecting /\ completed' = completed) =>
                furbies' = furbies]_vars

\* A connect has failed, one has completed, and the table holds only the
\* Furby of the completed one.
C12_Witness ==
    /\ nextFluff = 2
    /\ connecting = {}
    /\ Cardinality(Completed) = 1
    /\ Len(furbies) = 1
    /\ furbies[1].fluff \in Completed

\* C13, as claimed: with argv[2] = "introspect" no connect is ever started,
\* the table stays empty and no request is served; otherwise no peripheral
\* is ever handed to fluffcon.introspect.
C13_ModesAreExclusive ==
    /\ argv2 = "introspect" =>
          /\ nextFluff = 0 /\ connecting = {} /\ furbies = <<>>
          /\ req.st = "idle"
    /\ argv2 # "introspect" => introspecting = {}

\* C14: in server mode the process never exits, whatever requests, calls of
\* do and connects have failed.  A POST /cmd that is being read can always
\* receive the end of its body, and the step in which it does answers it; a
\* discover event of a Furby can always be handled, and starts a connect (as
\* long as the model's MaxFluff allows one more).
C14_NoFailureIsFatal ==
    /\ [](argv2 # "introspect" =>
            /\ running
            /\ req.st = "reading" => ENABLED EndEvent
            /\ nextFluff < MaxFluff =>
                    \A u \in Uuids : ENABLED Discover(u, "Furby"))
    /\ [][/\ (req.st = "reading" /\ req' # req) =>
                (req'.st = "done" /\ req'.res.ends > 0)
          /\ (argv2 # "introspect" /\ nextFluff' # nextFluff) =>
                InFlight' = InFlight \cup {nextFluff'}]_vars

\* After a failed connect and a request answered with an error, a connect
\* is in flight.
C14_Witness ==
    /\ argv2 # "introspect" /\ running
    /\ req.st = "done" /\ BeginsWithError(req.res.text)
    /\ Started \ (InFlight \cup Completed) # {}
    /\ connecting # {}

\* C15: every Furby of the table has learned the commands.  A dispatch does
\* not change the table, and the Furbies it calls do on are Furbies of the
\* table as it is in that step: the one of the target, or the first ones of
\* the table in its order.  A step that changes the table handles no request,
\* and changes the table for one uuid by the whole Furby of a connect that
\* completes in that step.
C15_DispatchSeesWholeRegistry ==
    /\ [](\A i \in DOMAIN furbies : furbies[i].learned)
    /\ [][/\ Dispatch =>
                /\ furbies' = furbies
                /\ Len(req'.execs) <= Len(furbies)
                /\ \A k \in DOMAIN req'.execs :
                      /\ req'.execs[k].furby.learned
                      /\ req'.execs[k].furby =
                            IF HasTarget(req'.body)
                            THEN Lookup(req'.body.target)
                            ELSE furbies[k]
          /\ (furbies' # furbies) =>
                /\ req' = req
                /\ \E u \in Uuids :
                      /\ Len(completed'[u]) = Len(completed[u]) + 1
                      /\ \A i \in DOMAIN furbies :
                            furbies[i].uuid # u => furbies'[i] = furbies[i]
                      /\ \A i \in DOMAIN furbies' :
                            furbies'[i].uuid = u =>
                                /\ furbies'[i].fluff = Last(completed'[u])
                                /\ furbies'[i].learned
                                /\ i \in DOMAIN furbies =>
                                        furbies[i].uuid = u
                      /\ Len(furbies') =
                            Len(furbies) + (IF u \in Keys THEN 0 ELSE 1)]_vars

\* A broadcast called do on every Furby the table had, and the table has
\* since got one more.
C15_Witness ==
    /\ req.st = "done"
    /\ Broadcast(req.body)
    /\ req.execs # <<>>
    /\ ~Threw(req.execs)
    /\ Len(furbies) > Len(req.execs)

\* C16, as claimed: the step that handles the end of a POST /cmd body calls
\* res.end exactly once.
C16_EndedExactlyOnce ==
    [][Dispatch => req'.res.ends = 1]_vars

\* C17: the Furby the table holds for a uuid is the one of the connect for
\* that uuid whose callback ran last, whatever the order the connects were
\* started in.  Every connect in flight can complete, whatever other
\* connects for its uuid are in flight or have completed; a step that ends
\* a connect ends that one only.
C17_LastCompletedWins ==
    /\ [](/\ \A u \in Uuids :
                completed[u] # <<>> =>
                    u \in Keys /\ Lookup(u).fluff = Last(completed[u])
          /\ \A c \in connecting : ENABLED ConnectDone(c))
    /\ [][\A c \in connecting \ connecting' :
                /\ connecting' = connecting \ {c}
                /\ \/ completed' = completed
                   \/ completed' = [completed EXCEPT ![c.uuid] =
                                        Append(@, c.fluff)]]_vars

\* Two connects for one peripheral: the one started first completed last,
\* and its Furby is the one in the table.
C17_Witness ==
    \E u \in Uuids :
        /\ completed[u] = <<2, 1>>
        /\ Lookup(u).fluff = 1

\* C18: only a POST to /cmd is read and dispatched.  The handler answers
\* every other request itself, with one res.end, without a body being read
\* and without a call of do; no such request is ever waiting for its body or
\* has called do.
C18_OnlyPostDispatches ==
    /\ []((req.st # "idle" /\ ~(req.route = "cmd" /\ req.method = "POST")) =>
            /\ req.st = "done"
            /\ req.body = NoBody
            /\ req.execs = <<>>
            /\ req.res.ends = 1)
    /\ [][(req.st # "reading" /\ req' # req) =>
            IF req'.route = "cmd" /\ req'.method = "POST"
            THEN req'.st = "reading" /\ req'.execs = <<>> /\ req'.res.ends = 0
            ELSE req'.st = "done" /\ req'.execs = <<>>]_vars

\* A preflight to /cmd has been answered while a Furby was in the table.
C18_Witness ==
    /\ req.st = "done"
    /\ req.route = "cmd"
    /\ req.method = "OPTIONS"
    /\ furbies # <<>>

====
